---- MODULE Spec2Model ----
(***************************************************************************)
(* micrograd-rs: a reverse-mode automatic-differentiation engine over      *)
(* scalars (src/lib.rs).                                                   *)
(*                                                                         *)
(* Every Value owns an Rc<RefCell<ValueData>>; the Rc pointer is the       *)
(* node's identity.  The model keeps the allocated ValueData cells in the  *)
(* sequence `nodes`: the index of a cell is its storage location.  A       *)
(* Value handle is a record [ptr, at]: ptr is the storage location the     *)
(* handle's Rc points at, `at` is the place the handle itself lives (the   *)
(* operand slot of the Operation that owns it, or the caller's variable),  *)
(* so that two clones of one Value are different handles with equal ptr.   *)
(*                                                                         *)
(* f64 scalars are modelled by integers; the model builds only nodes whose *)
(* value stays within MaxData, where every sum and product is exact in     *)
(* both.                                                                   *)
(***************************************************************************)
EXTENDS Integers, Sequences, FiniteSets

\* Bounds of the model.
MaxNodes == 4
MaxVal == 2
MaxExp == 2
MaxBackward == 2
MaxSetGrad == 1
MaxData == 64

Vals == 1..MaxVal
Exps == 0..MaxExp

VARIABLES
    nodes,      \* the allocated cells: data, grad and the Operation that made them
    pc,         \* "idle", or "backward" while Value::backward runs its loop
    order,      \* backward: the handles of toposort() not yet processed
    full,       \* the order the last toposort() returned
    passes,     \* history: the terminals backward() was called on, oldest first
    nset        \* history: number of set_grad calls made by the caller

vars == <<nodes, pc, order, full, passes, nset>>

Ptrs == 1..Len(nodes)

\* The values the model lets a node take.
InRange(v) == 0 - MaxData <= v /\ v <= MaxData

\* The caller's handle to the node at ptr.
Caller(ptr) == [ptr |-> ptr, at |-> <<0, 0>>]

\* f64::powi for a non-negative exponent: x^0 is 1 for every x.
RECURSIVE powi(_, _)
powi(x, n) == IF n <= 0 THEN 1 ELSE x * powi(x, n - 1)

\* Value::new: a fresh cell with gradient 0.0.
new(data, op, lhs, rhs, pow) ==
    [data |-> data, grad |-> 0, op |-> op, lhs |-> lhs, rhs |-> rhs, pow |-> pow]

data(ns, ptr) == ns[ptr].data
grad(ns, ptr) == ns[ptr].grad

\* Value::set_grad: overwrite the gradient in the shared cell.
set_grad(ns, ptr, g) == [ns EXCEPT ![ptr].grad = g]

\* Mutation of eq: handles compared by where they live, so that two clones of
\* one Value differ.
eq_by_handle(h1, h2) == h1 = h2

\* impl PartialEq for Value: Rc::ptr_eq on the data cell.
eq(h1, h2) == h1.ptr = h2.ptr

\* HashSet<&Value>::contains, through Hash and Eq of Value.
contains(visited, h) == \E v \in visited : eq(v, h)

\* The operand handles an Operation holds, left operand first.
operands(ns, ptr) ==
    CASE ns[ptr].op \in {"Addition", "Subtraction", "Multiplication"} ->
            << [ptr |-> ns[ptr].lhs, at |-> <<ptr, 1>>],
               [ptr |-> ns[ptr].rhs, at |-> <<ptr, 2>>] >>
      [] ns[ptr].op = "Exponentiation" ->
            << [ptr |-> ns[ptr].lhs, at |-> <<ptr, 1>>] >>
      [] OTHER -> << >>

\* Value::toposort_impl: post-order depth-first search with a visited set.
\* st is [visited, traversal].
RECURSIVE toposort_impl(_, _, _)
toposort_impl(ns, h, st) ==
    IF contains(st.visited, h) THEN st
    ELSE LET ops == operands(ns, h.ptr)
             s0 == [st EXCEPT !.visited = @ \cup {h}]
             s1 == IF Len(ops) >= 1 THEN toposort_impl(ns, ops[1], s0) ELSE s0
             s2 == IF Len(ops) >= 2 THEN toposort_impl(ns, ops[2], s1) ELSE s1
         IN  [s2 EXCEPT !.traversal = Append(@, h)]

reverse(s) == [i \in 1..Len(s) |-> s[Len(s) + 1 - i]]

\* Mutation of toposort: the post-order list is returned without reverse().
toposort_unreversed(ns, h) ==
    toposort_impl(ns, h, [visited |-> {}, traversal |-> << >>]).traversal

\* Value::toposort
toposort(ns, h) ==
    reverse(toposort_impl(ns, h, [visited |-> {}, traversal |-> << >>]).traversal)

\* Mutation of calculate_gradients: Addition and Subtraction compute both new
\* gradients from a snapshot taken before either is written back.
calculate_gradients_snapshot(ns, ptr, g) ==
    LET n == ns[ptr] IN
    CASE n.op = "Addition" ->
            set_grad(set_grad(ns, n.lhs, grad(ns, n.lhs) + g), n.rhs, grad(ns, n.rhs) + g)
      [] n.op = "Subtraction" ->
            set_grad(set_grad(ns, n.lhs, grad(ns, n.lhs) + g), n.rhs, grad(ns, n.rhs) - g)
      [] n.op = "Multiplication" ->
            set_grad(set_grad(ns, n.lhs, g * data(ns, n.rhs)), n.rhs, g * data(ns, n.lhs))
      [] n.op = "Exponentiation" ->
            IF n.pow > 0
            THEN set_grad(ns, n.lhs, g * n.pow * powi(data(ns, n.lhs), n.pow - 1))
            ELSE set_grad(ns, n.lhs, 0)
      [] OTHER -> ns

\* Mutation of calculate_gradients: Addition and Subtraction overwrite the
\* operands' gradients instead of accumulating into them.
calculate_gradients_overwrite(ns, ptr, g) ==
    LET n == ns[ptr] IN
    CASE n.op = "Addition" ->
            set_grad(set_grad(ns, n.lhs, g), n.rhs, g)
      [] n.op = "Subtraction" ->
            set_grad(set_grad(ns, n.lhs, g), n.rhs, 0 - g)
      [] n.op = "Multiplication" ->
            set_grad(set_grad(ns, n.lhs, g * data(ns, n.rhs)), n.rhs, g * data(ns, n.lhs))
      [] n.op = "Exponentiation" ->
            IF n.pow > 0
            THEN set_grad(ns, n.lhs, g * n.pow * powi(data(ns, n.lhs), n.pow - 1))
            ELSE set_grad(ns, n.lhs, 0)
      [] OTHER -> ns

\* Mutation of calculate_gradients: the right operand's rule is the one of the
\* neighbouring arm (Addition subtracts, Subtraction adds), Multiplication
\* gives each operand its own value, Exponentiation forgets the "- 1".
calculate_gradients_slip(ns, ptr, g) ==
    LET n == ns[ptr] IN
    CASE n.op = "Addition" ->
            LET s1 == set_grad(ns, n.lhs, grad(ns, n.lhs) + g)
            IN  set_grad(s1, n.rhs, grad(s1, n.rhs) - g)
      [] n.op = "Subtraction" ->
            LET s1 == set_grad(ns, n.lhs, grad(ns, n.lhs) + g)
            IN  set_grad(s1, n.rhs, grad(s1, n.rhs) + g)
      [] n.op = "Multiplication" ->
            LET s1 == set_grad(ns, n.lhs, g * data(ns, n.lhs))
            IN  set_grad(s1, n.rhs, g * data(s1, n.rhs))
      [] n.op = "Exponentiation" ->
            IF n.pow > 0
            THEN set_grad(ns, n.lhs, g * n.pow * powi(data(ns, n.lhs), n.pow))
            ELSE set_grad(ns, n.lhs, 0)
      [] OTHER -> ns

\* Operation::calculate_gradients on the Operation of the node at ptr.
calculate_gradients(ns, ptr, g) ==
    LET n == ns[ptr] IN
    CASE n.op = "Addition" ->
            LET s1 == set_grad(ns, n.lhs, grad(ns, n.lhs) + g)
            IN  set_grad(s1, n.rhs, grad(s1, n.rhs) + g)
      [] n.op = "Subtraction" ->
            LET s1 == set_grad(ns, n.lhs, grad(ns, n.lhs) + g)
            IN  set_grad(s1, n.rhs, grad(s1, n.rhs) - g)
      [] n.op = "Multiplication" ->
            LET s1 == set_grad(ns, n.lhs, g * data(ns, n.rhs))
            IN  set_grad(s1, n.rhs, g * data(s1, n.lhs))
      [] n.op = "Exponentiation" ->
            IF n.pow > 0
            THEN set_grad(ns, n.lhs, g * n.pow * powi(data(ns, n.lhs), n.pow - 1))
            ELSE set_grad(ns, n.lhs, 0)
      [] OTHER -> ns

Init ==
    /\ nodes = << >>
    /\ pc = "idle"
    /\ order = << >>
    /\ full = << >>
    /\ passes = << >>
    /\ nset = 0

\* Value::from_val
FromVal ==
    /\ pc = "idle"
    /\ Len(nodes) < MaxNodes
    /\ \E v \in Vals : nodes' = Append(nodes, new(v, "None", 0, 0, 0))
    /\ UNCHANGED <<pc, order, full, passes, nset>>

\* impl Add for Value
Add ==
    /\ pc = "idle"
    /\ Len(nodes) < MaxNodes
    /\ \E a \in Ptrs, b \in Ptrs :
          /\ InRange(data(nodes, a) + data(nodes, b))
          /\ nodes' = Append(nodes, new(data(nodes, a) + data(nodes, b), "Addition", a, b, 0))
    /\ UNCHANGED <<pc, order, full, passes, nset>>

\* impl Sub for Value
Sub ==
    /\ pc = "idle"
    /\ Len(nodes) < MaxNodes
    /\ \E a \in Ptrs, b \in Ptrs :
          /\ InRange(data(nodes, a) - data(nodes, b))
          /\ nodes' = Append(nodes, new(data(nodes, a) - data(nodes, b), "Subtraction", a, b, 0))
    /\ UNCHANGED <<pc, order, full, passes, nset>>

\* impl Mul for Value
Mul ==
    /\ pc = "idle"
    /\ Len(nodes) < MaxNodes
    /\ \E a \in Ptrs, b \in Ptrs :
          /\ InRange(data(nodes, a) * data(nodes, b))
          /\ nodes' = Append(nodes, new(data(nodes, a) * data(nodes, b), "Multiplication", a, b, 0))
    /\ UNCHANGED <<pc, order, full, passes, nset>>

\* Value::powi
Powi ==
    /\ pc = "idle"
    /\ Len(nodes) < MaxNodes
    /\ \E a \in Ptrs, n \in Exps :
          /\ InRange(powi(data(nodes, a), n))
          /\ nodes' = Append(nodes, new(powi(data(nodes, a), n), "Exponentiation", a, 0, n))
    /\ UNCHANGED <<pc, order, full, passes, nset>>

\* Value::set_grad called by the caller.
SetGrad ==
    /\ pc = "idle"
    /\ nset < MaxSetGrad
    /\ \E a \in Ptrs, g \in Vals : nodes' = set_grad(nodes, a, g)
    /\ nset' = nset + 1
    /\ UNCHANGED <<pc, order, full, passes>>

\* Value::backward, up to the loop: seed the terminal, compute the order.
Backward ==
    /\ pc = "idle"
    /\ Len(passes) < MaxBackward
    /\ \E t \in Ptrs :
          /\ nodes' = set_grad(nodes, t, 1)
          /\ order' = toposort(nodes, Caller(t))
          /\ full' = order'
          /\ passes' = Append(passes, t)
    /\ pc' = "backward"
    /\ UNCHANGED nset

\* Value::backward, one iteration of the loop over the order.
BackwardStep ==
    /\ pc = "backward"
    /\ order # << >>
    /\ LET ptr == Head(order).ptr IN
          nodes' = IF nodes[ptr].op # "None"
                   THEN calculate_gradients(nodes, ptr, grad(nodes, ptr))
                   ELSE nodes
    /\ order' = Tail(order)
    /\ UNCHANGED <<pc, full, passes, nset>>

\* Value::backward returns once the order is consumed.
BackwardReturn ==
    /\ pc = "backward"
    /\ order = << >>
    /\ pc' = "idle"
    /\ UNCHANGED <<nodes, order, full, passes, nset>>

Next ==
    \/ FromVal
    \/ Add
    \/ Sub
    \/ Mul
    \/ Powi
    \/ SetGrad
    \/ Backward
    \/ BackwardStep
    \/ BackwardReturn

Spec == Init /\ [][Next]_vars

(***************************************************************************)
(* Properties.                                                             *)
(***************************************************************************)

IsLeaf(p) == nodes[p].op = "None"
IsBinary(p) == nodes[p].op \in {"Addition", "Subtraction", "Multiplication"}

\* The storage locations an Operation's operands point at.
OperandPtrs(p) ==
    IF IsBinary(p) THEN {nodes[p].lhs, nodes[p].rhs}
    ELSE IF nodes[p].op = "Exponentiation" THEN {nodes[p].lhs}
    ELSE {}

\* The nodes reachable from p along operand edges, p included.
RECURSIVE Reach(_)
Reach(p) == {p} \cup UNION {Reach(q) : q \in OperandPtrs(p)}

\* x to the n-th power, n >= 0.
RECURSIVE Pow(_, _)
Pow(x, n) == IF n = 0 THEN 1 ELSE x * Pow(x, n - 1)

\* The total derivative of the value of node t with respect to the value of
\* node n, by the chain rule over the expression of t.
RECURSIVE Deriv(_, _)
Deriv(t, n) ==
    IF t = n THEN 1
    ELSE LET l == nodes[t].lhs
             r == nodes[t].rhs
         IN  CASE nodes[t].op = "Addition" -> Deriv(l, n) + Deriv(r, n)
               [] nodes[t].op = "Subtraction" -> Deriv(l, n) - Deriv(r, n)
               [] nodes[t].op = "Multiplication" ->
                     Deriv(l, n) * nodes[r].data + nodes[l].data * Deriv(r, n)
               [] nodes[t].op = "Exponentiation" ->
                     IF nodes[t].pow > 0
                     THEN nodes[t].pow * Pow(nodes[l].data, nodes[t].pow - 1) * Deriv(l, n)
                     ELSE 0
               [] OTHER -> 0

\* backward() has run exactly once, on t, and has returned; the caller never
\* called set_grad: every gradient was 0.0 when the pass began.
OnePass(t) == pc = "idle" /\ nset = 0 /\ passes = <<t>>

\* The terminal of the last backward() call.
Terminal == passes[Len(passes)]

\* C1: after one backward() from a terminal over fresh nodes, every node
\* reachable from the terminal holds the total derivative of the terminal's
\* value with respect to its own value, also when reached through several paths.
C1_TotalDerivative ==
    \A t \in Ptrs :
        OnePass(t) => \A n \in Reach(t) : nodes[n].grad = Deriv(t, n)

\* C2: the order toposort computes holds every node reachable from the
\* terminal exactly once (identity is the storage location), and no node
\* comes before a node that uses it as an operand.
C2_ToposortTotal ==
    passes # << >> =>
        /\ {full[i].ptr : i \in 1..Len(full)} = Reach(Terminal)
        /\ \A i, j \in 1..Len(full) : full[i].ptr = full[j].ptr => i = j
        /\ \A i, j \in 1..Len(full) :
              full[j].ptr \in OperandPtrs(full[i].ptr) => i < j

\* C2 witness: an order over a node used as both operands of one operation
\* and a node reached along two paths of different length.
C2_Witness ==
    /\ passes # << >>
    /\ Len(full) >= 3
    /\ \E p \in Reach(Terminal) : IsBinary(p) /\ nodes[p].lhs = nodes[p].rhs
    /\ \E p, q \in Reach(Terminal) :
          /\ p # q
          /\ IsBinary(p) /\ nodes[p].lhs # nodes[p].rhs
          /\ nodes[p].lhs = q \/ nodes[p].rhs = q
          /\ OperandPtrs(p) \cap OperandPtrs(q) # {}

\* The change of a's gradient the rule of operation op owes a node a used as
\* both operands, for incoming gradient g.
SelfUseChange(op, g, a) ==
    CASE op = "Addition" -> 2 * g
      [] op = "Subtraction" -> 0
      [] op = "Multiplication" -> 2 * g * nodes[a].data

\* C3: when the node backward() processes uses one node a as both operands of
\* its operation, the step changes a's gradient by 2g for a + a, by 0 for
\* a - a and by 2 * g * a.value for a x a, g being the incoming gradient.
C3_SelfUse ==
    [][ (pc = "backward" /\ order # << >>) =>
          LET p == Head(order).ptr
              a == nodes[p].lhs
          IN  (IsBinary(p) /\ nodes[p].lhs = nodes[p].rhs) =>
                 nodes'[a].grad - nodes[a].grad = SelfUseChange(nodes[p].op, nodes[p].grad, a)
      ]_vars

\* C4: for a fresh leaf a and b = a + a, after b.backward() the gradient of a
\* is 2.0 and the gradient of b is 1.0.
C4_ValueReuse ==
    \A b \in Ptrs :
        (/\ OnePass(b)
         /\ nodes[b].op = "Addition"
         /\ nodes[b].lhs = nodes[b].rhs
         /\ IsLeaf(nodes[b].lhs))
        => nodes[nodes[b].lhs].grad = 2 /\ nodes[b].grad = 1

C4_Witness ==
    \E b \in Ptrs :
        /\ OnePass(b)
        /\ nodes[b].op = "Addition"
        /\ nodes[b].lhs = nodes[b].rhs
        /\ IsLeaf(nodes[b].lhs)
        /\ nodes[nodes[b].lhs].data = 2

\* c is the result of operation op on two distinct leaves.
OverLeaves(c, op) ==
    /\ nodes[c].op = op
    /\ nodes[c].lhs # nodes[c].rhs
    /\ IsLeaf(nodes[c].lhs)
    /\ IsLeaf(nodes[c].rhs)

\* C5: for distinct fresh leaves a, b and c = a x b, c.value is
\* a.value * b.value and after c.backward() a.grad is b.value, b.grad is
\* a.value and c.grad is 1.0.
C5_Mul ==
    \A c \in Ptrs :
        OverLeaves(c, "Multiplication") =>
            LET a == nodes[c].lhs
                b == nodes[c].rhs
            IN  /\ nodes[c].data = nodes[a].data * nodes[b].data
                /\ OnePass(c) =>
                      /\ nodes[a].grad = nodes[b].data
                      /\ nodes[b].grad = nodes[a].data
                      /\ nodes[c].grad = 1

C5_Witness ==
    \E c \in Ptrs :
        /\ OverLeaves(c, "Multiplication")
        /\ OnePass(c)
        /\ nodes[nodes[c].lhs].data # nodes[nodes[c].rhs].data

\* C6: for distinct fresh leaves a, b and c = a + b, c.value is
\* a.value + b.value and after c.backward() a.grad, b.grad and c.grad are 1.0.
C6_Add ==
    \A c \in Ptrs :
        OverLeaves(c, "Addition") =>
            LET a == nodes[c].lhs
                b == nodes[c].rhs
            IN  /\ nodes[c].data = nodes[a].data + nodes[b].data
                /\ OnePass(c) =>
                      /\ nodes[a].grad = 1
                      /\ nodes[b].grad = 1
                      /\ nodes[c].grad = 1

C6_Witness ==
    \E c \in Ptrs :
        /\ OverLeaves(c, "Addition")
        /\ OnePass(c)
        /\ nodes[nodes[c].lhs].data # nodes[nodes[c].rhs].data

\* C7: for distinct fresh leaves a, b and c = a - b, c.value is
\* a.value - b.value and after c.backward() a.grad is 1.0, b.grad is -1.0
\* and c.grad is 1.0.
C7_Sub ==
    \A c \in Ptrs :
        OverLeaves(c, "Subtraction") =>
            LET a == nodes[c].lhs
                b == nodes[c].rhs
            IN  /\ nodes[c].data = nodes[a].data - nodes[b].data
                /\ OnePass(c) =>
                      /\ nodes[a].grad = 1
                      /\ nodes[b].grad = 0 - 1
                      /\ nodes[c].grad = 1

C7_Witness ==
    \E c \in Ptrs :
        /\ OverLeaves(c, "Subtraction")
        /\ OnePass(c)
        /\ nodes[nodes[c].lhs].data # nodes[nodes[c].rhs].data

\* p is x.powi(n) for a leaf x.
PowOfLeaf(p) == nodes[p].op = "Exponentiation" /\ IsLeaf(nodes[p].lhs)

\* y is c x x.powi(n) for leaves c and x.
ScaledPow(y) ==
    /\ nodes[y].op = "Multiplication"
    /\ IsLeaf(nodes[y].lhs)
    /\ PowOfLeaf(nodes[y].rhs)

C9_LeavesLast ==
    passes # << >> =>
        /\ full[1].ptr = Terminal
        /\ \A i, j \in 1..Len(full) :
              (IsLeaf(full[i].ptr) /\ ~IsLeaf(full[j].ptr)) => j < i

\* C9 as amended: the terminal comes first, the last node is a leaf, and a
\* leaf comes after every node that uses it as an operand.
C9_TerminalFirstLeafLast ==
    passes # << >> =>
        /\ full[1].ptr = Terminal
        /\ IsLeaf(full[Len(full)].ptr)
        /\ \A i, j \in 1..Len(full) :
              (IsLeaf(full[j].ptr) /\ full[j].ptr \in OperandPtrs(full[i].ptr)) => i < j

\* C9 witness: an order in which a leaf comes before a node with an operation.
C9_Witness ==
    /\ passes # << >>
    /\ \E i, j \in 1..Len(full) :
          i < j /\ IsLeaf(full[i].ptr) /\ ~IsLeaf(full[j].ptr)

\* C10 (gradients): for c = a + b over distinct fresh leaves, after k >= 1
\* calls of c.backward() and nothing else touching gradients, c.grad is 1.0
\* and a.grad and b.grad are k.
C10_Gradients ==
    \A c \in Ptrs :
        (/\ OverLeaves(c, "Addition")
         /\ pc = "idle"
         /\ nset = 0
         /\ passes # << >>
         /\ \A i \in 1..Len(passes) : passes[i] = c)
        => /\ nodes[c].grad = 1
           /\ nodes[nodes[c].lhs].grad = Len(passes)
           /\ nodes[nodes[c].rhs].grad = Len(passes)

\* C10: backward() re-seeds only the terminal and never resets the gradient
\* another node holds from an earlier pass, and no step changes a node's value.
C10_NoReset ==
    /\ []C10_Gradients
    /\ [][\A p \in Ptrs : nodes'[p].data = nodes[p].data]_vars

C10_Witness ==
    \E c \in Ptrs :
        /\ OverLeaves(c, "Addition")
        /\ pc = "idle"
        /\ nset = 0
        /\ passes = <<c, c>>

====
